---- MODULE Spec2Model ----
(***************************************************************************)
(* State-machine model of lib/TunnelCluster.js: one TunnelCluster.open()   *)
(* session (the remote socket, the local sockets created by connLocal, the *)
(* retry timers, the events emitted to the caller) and the                 *)
(* LocalConnectionListener transform.                                      *)
(*                                                                         *)
(* Sockets are the environment: their connect / data / error / close /     *)
(* timeout events are actions, and each action runs the whole listener     *)
(* the source registers for that event.  Listeners are written as          *)
(* operators from a state record to a state record so that a listener      *)
(* that calls another one (remoteClose() from the timeout callbacks,       *)
(* connLocal() from the connect callback) is their composition.            *)
(***************************************************************************)
EXTENDS Naturals, Sequences, FiniteSets

VARIABLES
    opts,           \* this.opts, fixed at construction
    certReadable,   \* environment: does fs.readFileSync of cert/key/ca succeed
    remote,         \* the remote socket of open()
    connecting,     \* the closure variable `connecting` of open()
    closeListeners, \* ids of the locals whose remoteClose is on remote 'close'
    locals,         \* the local sockets created so far, by creation order
    timers,         \* pending setTimeout(connLocal, ..) timers
    emitted,        \* events emitted on the TunnelCluster
    thrown,         \* where an exception escaped a callback, if any
    openResult,     \* how the call of open() itself ended
    lastEvent,      \* the event handled by the last step
    hist,           \* history of the run (observations only)
    sentinel        \* one LocalConnectionListener fed chunk by chunk

vars == <<opts, certReadable, remote, connecting, closeListeners, locals,
          timers, emitted, thrown, openResult, lastEvent, hist, sentinel>>

mainVars == <<opts, certReadable, remote, connecting, closeListeners, locals,
              timers, emitted, thrown, openResult, lastEvent, hist>>

(***************************************************************************)
(* Bounds of the model.                                                    *)
(***************************************************************************)
MaxLocals == 3      \* local sockets created in one session
MaxRequests == 1    \* remote data chunks handled in one session
MaxChunks == 3      \* chunks fed to one LocalConnectionListener
TickMs == 500       \* granularity of the clock

(***************************************************************************)
(* Byte chunks, as sequences of characters.                                *)
(***************************************************************************)
MARKER == <<"4", "0", "8", " ", "R", "e", "q", "u", "e", "s", "t", " ", "T", "i", "m", "e", "o", "u", "t">>
RespOk == <<"2", "0", "0", " ", "O", "K">>
Resp408 == <<"H", "T", "T", "P", "/", "1", ".", "1", " ", "4", "0", "8", " ", "R", "e", "q", "u", "e", "s", "t", " ", "T", "i", "m", "e", "o", "u", "t", "\r", "\n">>
RespSplitA == <<"4", "0", "8", " ", "R", "e", "q", "u", "e", "s", "t">>
RespSplitB == <<" ", "T", "i", "m", "e", "o", "u", "t">>
RespLower == <<"4", "0", "8", " ", "r", "e", "q", "u", "e", "s", "t", " ", "t", "i", "m", "e", "o", "u", "t">>
ReqGet == <<"G", "E", "T", " ", "/", "f", "o", "o", " ", "H", "T", "T", "P", "/", "1", ".", "1", "\r", "\n">>
ReqLeadSpace == <<" ", "G", "E", "T", " ", "/", "f", "o", "o">>
ReqNoPath == <<"P", "I", "N", "G">>
ReqBinary == <<"#", "%", " ", "/", "x">>

SentinelChunks == {RespOk, Resp408, MARKER, RespSplitA, RespSplitB, RespLower}
LocalChunks == {RespOk, Resp408, RespSplitA}
RemoteChunks == {ReqGet, ReqLeadSpace, ReqBinary}

\* String.prototype.includes
Includes(s, m) ==
    \E i \in 0..Len(s) : i + Len(m) <= Len(s) /\ SubSeq(s, i + 1, i + Len(m)) = m

\* the character classes \w and \S of the regular expression of line 203
WordChars ==
    {"A", "B", "C", "D", "E", "F", "G", "H", "I", "J", "K", "L", "M", "N", "O",
     "P", "Q", "R", "S", "T", "U", "V", "W", "X", "Y", "Z",
     "a", "b", "c", "d", "e", "f", "g", "h", "i", "j", "k", "l", "m", "n", "o",
     "p", "q", "r", "s", "t", "u", "v", "w", "x", "y", "z",
     "0", "1", "2", "3", "4", "5", "6", "7", "8", "9", "_"}
SpaceChars == {" ", "\r", "\n", "\t"}

\* length of the longest prefix of s[from..] whose characters satisfy Ok
RECURSIVE Run(_, _, _)
Run(s, from, Class) ==
    IF from <= Len(s) /\ s[from] \in Class THEN 1 + Run(s, from + 1, Class) ELSE 0
RECURSIVE RunNot(_, _, _)
RunNot(s, from, Class) ==
    IF from <= Len(s) /\ s[from] \notin Class THEN 1 + RunNot(s, from + 1, Class) ELSE 0

\* data.toString().match(/^(\w+) (\S+)/): <<>> when there is no match,
\* else <<method, path>>
Match(data) ==
    LET w == Run(data, 1, WordChars)
        p == RunNot(data, w + 2, SpaceChars)
    IN  IF w >= 1 /\ w + 1 <= Len(data) /\ data[w + 1] = " " /\ p >= 1
        THEN <<SubSeq(data, 1, w), SubSeq(data, w + 2, w + 1 + p)>>
        ELSE <<>>

(***************************************************************************)
(* LocalConnectionListener (lines 15-35).                                  *)
(***************************************************************************)
\* line 23
IsTimeout(data) == Includes(data, MARKER)

\* _transform: whether 'local:timeout' is emitted, and the chunk passed on
Transform(data) == [emit |-> IsTimeout(data), out |-> data]

\* emitter.on in place of emitter.once: the listener stays registered
EmitOn(listeners) == [run |-> listeners, left |-> listeners]

\* emitter.once + emitter.emit: the number of once-listeners an emit runs,
\* and the number left registered afterwards
EmitOnce(listeners) == [run |-> listeners, left |-> 0]

SentinelInit ==
    [in |-> <<>>, out |-> <<>>, listeners |-> 0, calls |-> 0, registeredAt |-> 0,
     registered |-> FALSE]

\* onTimeout(callback), called once on each listener by the source (line 180)
SentinelOnTimeout ==
    /\ ~sentinel.registered
    /\ sentinel' = [sentinel EXCEPT !.listeners = @ + 1, !.registered = TRUE,
                                    !.registeredAt = Len(sentinel.in)]
    /\ UNCHANGED mainVars

\* one chunk written to the transform
SentinelWrite(data) ==
    /\ Len(sentinel.in) < MaxChunks
    /\ LET t == Transform(data)
           e == IF t.emit THEN EmitOnce(sentinel.listeners)
                          ELSE [run |-> 0, left |-> sentinel.listeners]
       IN  sentinel' = [sentinel EXCEPT !.in = Append(@, data),
                                        !.out = Append(@, t.out),
                                        !.calls = @ + e.run,
                                        !.listeners = e.left]
    /\ UNCHANGED mainVars

(***************************************************************************)
(* TunnelCluster.open(): configuration.                                    *)
(***************************************************************************)
NONE == "undefined"

\* line 48
RemoteHostOrIp(opt) == IF opt.remote_ip # NONE THEN opt.remote_ip ELSE opt.remote_host

\* line 50
LocalHost(opt) == IF opt.local_host # NONE THEN opt.local_host ELSE "localhost"

\* line 52
LocalProtocol(opt) == IF opt.local_https THEN "https" ELSE "http"

\* the message without the port
RefusedMessageNoPort(host, port) ==
    <<"connection refused: ", host, " (check your firewall settings)">>

\* lines 82-84: the message of the Error emitted for a refused remote
RefusedMessage(host, port) ==
    <<"connection refused: ", host, ":", port, " (check your firewall settings)">>

\* only ECONNREFUSED retried
IsTransientRefusedOnly(code) == code = "ECONNREFUSED"

\* lines 136-137: the local error codes that are retried
IsTransient(code) == code \in {"ECONNREFUSED", "ECONNRESET"}

\* line 79: the remote error code that is reported to the caller
IsRefused(code) == code = "ECONNREFUSED"

\* a delay with a zero dropped
RETRY_DELAY_SHORT == 10 * 10

\* line 142: the delay of setTimeout(connLocal, 1000)
RETRY_DELAY == 1000

\* the branches of the conditional of lines 106-112 swapped
CertReadThrowsSwapped(opt, readable) ==
    opt.local_https /\ opt.allow_invalid_cert /\ ~readable

\* lines 105-116: getLocalCertOpts() reads the files, and so can throw, only
\* for a TLS local without allow_invalid_cert
CertReadThrows(opt, readable) ==
    opt.local_https /\ ~opt.allow_invalid_cert /\ ~readable

\* the configurations tried: every value of every option, and each way the
\* certificate options combine
Plain == [remote_ip |-> NONE, remote_host |-> "lt.example", remote_port |-> "4000",
          local_host |-> NONE, local_port |-> "8080", local_https |-> FALSE,
          allow_invalid_cert |-> FALSE, session_connection |-> FALSE]

Configs ==
    {Plain,
     [Plain EXCEPT !.session_connection = TRUE, !.remote_ip = "10.0.0.1",
                   !.local_host = "svc.local"],
     [Plain EXCEPT !.local_https = TRUE, !.allow_invalid_cert = TRUE,
                   !.remote_ip = "10.0.0.1"],
     [Plain EXCEPT !.local_https = TRUE, !.session_connection = TRUE]}

(***************************************************************************)
(* The mutable state of one open() call, as a record, and the primitive    *)
(* operations of sockets and emitters on it.                               *)
(***************************************************************************)
Cur ==
    [remote |-> remote, connecting |-> connecting,
     closeListeners |-> closeListeners, locals |-> locals, timers |-> timers,
     emitted |-> emitted, thrown |-> thrown, hist |-> hist]

\* this.emit(ev): the history notes a `dead` that follows a fatal local
\* error or a remote error other than ECONNREFUSED
Emit(s, ev) ==
    [s EXCEPT !.emitted[ev] = @ + 1,
              !.hist.deadAfterFatal = @ \/ (ev = "dead" /\ s.hist.fatalLocal),
              !.hist.deadAfterRemoteOther = @ \/ (ev = "dead" /\ s.hist.remoteOther)]

EmitError(s, msg) == [Emit(s, "error") EXCEPT !.emitted.errorMsg = msg]

\* remote.end(), remote.pause(), remote.resume()
RemoteEnd(s) == [s EXCEPT !.remote.ended = TRUE]
\* remote.pause() left out
RemotePauseMissing(s) == s
RemotePause(s) == [s EXCEPT !.remote.paused = TRUE]
RemoteResume(s) == [s EXCEPT !.remote.paused = FALSE]

\* local.end()
LocalEnd(s, id) == [s EXCEPT !.locals[id].ended = TRUE]

\* remote.once('close', remoteClose) and remote.removeListener('close', remoteClose)
AddCloseListener(s, id) == [s EXCEPT !.closeListeners = @ \cup {id}]
\* a removeListener that leaves the listener registered
RemoveCloseListenerMissing(s, id) == s

RemoveCloseListener(s, id) == [s EXCEPT !.closeListeners = @ \ {id}]

\* setTimeout(connLocal, delay)
SetTimeout(s, delay) ==
    [s EXCEPT !.timers = Append(@, [delay |-> delay, elapsed |-> 0]),
              !.hist.retriesScheduled = @ + 1]

\* a test of the 'close' having been emitted in place of remote.destroyed
RemoteClosedOnly(s) == s.remote.state = "closed"

RemoteDestroyed(s) == s.remote.state \in {"destroyed", "closed"}

(***************************************************************************)
(* The listeners of open(), lines 74-216.                                  *)
(***************************************************************************)
\* lines 119-123
remoteClose(s, id) == LocalEnd(Emit(s, "dead"), id)

\* the test of line 146 left out: the idle timer armed for every local
NewLocalAlwaysTimed ==
    [state |-> "connecting", ended |-> FALSE, tls |-> opts.local_https,
     host |-> LocalHost(opts), port |-> opts.local_port,
     onError |-> TRUE, onConnect |-> TRUE, onTimeout |-> TRUE, idleTimer |-> TRUE,
     injector |-> 0, piped |-> FALSE, hostTransform |-> FALSE,
     hadError |-> FALSE]

\* the socket made by tls.connect / net.connect and the listeners that
\* connLocal puts on it (lines 115-117, 130, 146-153, 164)
NewLocal ==
    [state |-> "connecting", ended |-> FALSE, tls |-> opts.local_https,
     host |-> LocalHost(opts), port |-> opts.local_port,
     onError |-> TRUE, onConnect |-> TRUE,
     onTimeout |-> opts.session_connection,
     idleTimer |-> opts.session_connection,
     injector |-> 0, piped |-> FALSE, hostTransform |-> FALSE,
     hadError |-> FALSE]

\* lines 91-199; via is the callback that called it
connLocal(s, via) ==
    LET called == [s EXCEPT !.hist.connLocalCalls = @ + 1]
    IN  IF RemoteDestroyed(called)
        THEN Emit(called, "dead")
        ELSE LET paused == RemotePause(called)
                 id == Len(s.locals) + 1
             IN  IF CertReadThrows(opts, certReadable)
                 THEN [paused EXCEPT !.thrown = via]
                 ELSE AddCloseListener(
                          [paused EXCEPT !.locals = Append(@, NewLocal)], id)

\* the `return` of line 138 missing: a fatal error also schedules the retry
localOnErrorNoReturn(s, id, code) ==
    LET a == RemoveCloseListener(LocalEnd(s, id), id)
    IN  IF ~IsTransient(code) THEN SetTimeout(RemoteEnd(a), RETRY_DELAY)
                              ELSE SetTimeout(a, RETRY_DELAY)

\* lines 130-143
localOnError(s, id, code) ==
    LET a == RemoveCloseListener(LocalEnd(s, id), id)
    IN  IF ~IsTransient(code) THEN RemoteEnd(a) ELSE SetTimeout(a, RETRY_DELAY)

\* the test of line 155 inverted
localOnTimeoutInverted(s, id) ==
    IF ~s.connecting
    THEN s
    ELSE remoteClose(RemoteEnd(RemoveCloseListener(s, id)), id)

\* lines 153-161
localOnTimeout(s, id) ==
    IF s.connecting
    THEN s
    ELSE remoteClose(RemoteEnd(RemoveCloseListener(s, id)), id)

\* lines 180-187
injectorOnTimeout(s, id) ==
    IF s.connecting
    THEN s
    ELSE remoteClose(RemoteEnd(RemoveCloseListener(s, id)), id)

\* lines 164-198: resume, optional Host transform, the injector with its
\* one callback, the pipes
localOnConnect(s, id) ==
    [RemoteResume(s) EXCEPT !.locals[id].injector = 1,
                            !.locals[id].piped = TRUE,
                            !.locals[id].hostTransform = (opts.local_host # NONE)]

\* the close listener emitting `dead` itself
localOnCloseDead(s, id) == remoteClose(RemoveCloseListener(s, id), id)

\* the close listener opening the next local at once
localOnCloseReconnect(s, id) ==
    AddCloseListener([s EXCEPT !.locals = Append(@, NewLocal)], Len(s.locals) + 1)

\* lines 195-197: the listener only logs
localOnClose(s, id) == s

\* lines 201-210
remoteOnData(s, data) ==
    LET a == [s EXCEPT !.connecting = TRUE]
    IN  IF Match(data) # <<>> THEN Emit(a, "request") ELSE a

\* lines 74-89
remoteOnError(s, code) ==
    RemoteEnd(IF IsRefused(code)
              THEN EmitError(s, RefusedMessage(s.remote.host, s.remote.port))
              ELSE s)

\* lines 213-216
remoteOnConnect(s) == connLocal(Emit(s, "open"), "connect")

\* every remoteClose registered on remote 'close' runs once
RECURSIVE RunCloseListeners(_, _)
RunCloseListeners(s, ids) ==
    IF ids = {}
    THEN s
    ELSE LET id == CHOOSE i \in ids : TRUE
         IN  RunCloseListeners(remoteClose(RemoveCloseListener(s, id), id), ids \ {id})

\* readable.pipe(dest) ends dest when the readable ends: remote 'end'
\* reaches every local it is piped into (lines 189-190)
RECURSIVE PipeEndToLocals(_, _)
PipeEndToLocals(s, ids) ==
    IF ids = {}
    THEN s
    ELSE LET id == CHOOSE i \in ids : TRUE
         IN  PipeEndToLocals(LocalEnd(s, id), ids \ {id})

(***************************************************************************)
(* Initial state: a constructed TunnelCluster, open() not yet called.      *)
(***************************************************************************)
NoEvent == [name |-> "none", id |-> 0, code |-> NONE, waited |-> 0]

Event(name, id, code) == [name |-> name, id |-> id, code |-> code, waited |-> 0]

\* refused, remoteOther: a remote error with / without ECONNREFUSED occurred;
\* fatalLocal: a local error with a code that is not retried occurred while
\* the remote was connected and not ended; deadAfter..: a `dead` was emitted
\* after that; saw408: a local chunk contained the marker
HistInit ==
    [refused |-> FALSE, remoteOther |-> FALSE, deadAfterRemoteOther |-> FALSE,
     fatalLocal |-> FALSE, deadAfterFatal |-> FALSE, saw408 |-> FALSE,
     connLocalCalls |-> 0, netConnects |-> 0, transientFailures |-> 0,
     retriesScheduled |-> 0]

MainInit ==
    /\ opts \in Configs
    /\ certReadable \in IF opts.local_https THEN BOOLEAN ELSE {TRUE}
    /\ remote = [state |-> "none", ended |-> FALSE, paused |-> FALSE,
                 host |-> NONE, port |-> NONE, keepAlive |-> FALSE]
    /\ connecting = FALSE
    /\ closeListeners = {}
    /\ locals = <<>>
    /\ timers = <<>>
    /\ emitted = [open |-> 0, request |-> 0, dead |-> 0, error |-> 0,
                  errorMsg |-> <<>>]
    /\ thrown = "none"
    /\ openResult = "none"
    /\ lastEvent = NoEvent
    /\ hist = HistInit

Init == MainInit /\ sentinel = SentinelInit

\* the new values of the session's state, and the event that produced them
Commit(s, ev) ==
    /\ remote' = s.remote
    /\ connecting' = s.connecting
    /\ closeListeners' = s.closeListeners
    /\ locals' = s.locals
    /\ timers' = s.timers
    /\ emitted' = s.emitted
    /\ thrown' = s.thrown
    /\ hist' = s.hist
    /\ lastEvent' = ev
    /\ UNCHANGED <<opts, certReadable, sentinel>>

\* an exception that escapes a callback ends the process
Running == openResult = "returned" /\ thrown = "none"

\* a destroyed socket: its timer is cleared and it emits no further event,
\* so its listeners are dropped
Destroyed(l) ==
    [l EXCEPT !.state = "closed", !.onError = FALSE, !.onConnect = FALSE,
              !.onTimeout = FALSE, !.idleTimer = FALSE, !.injector = 0]

LiveLocals(s) == {i \in 1..Len(s.locals) : s.locals[i].state # "closed"}

(***************************************************************************)
(* Actions: the call of open() and the events of the sockets and timers.   *)
(***************************************************************************)
\* lines 44-72: open() creates the remote socket and returns
Open ==
    /\ openResult = "none"
    /\ openResult' = "returned"
    /\ Commit([Cur EXCEPT !.remote = [state |-> "connecting", ended |-> FALSE,
                                      paused |-> FALSE,
                                      host |-> RemoteHostOrIp(opts),
                                      port |-> opts.remote_port,
                                      keepAlive |-> TRUE],
                          !.hist.netConnects = @ + 1],
              Event("open()", 0, NONE))

\* remote 'connect'
RemoteConnect ==
    /\ Running
    /\ remote.state = "connecting"
    /\ Commit(remoteOnConnect([Cur EXCEPT !.remote.state = "connected"]),
              Event("remoteConnect", 0, NONE))
    /\ UNCHANGED openResult

RemoteErrorCodes ==
    IF remote.state = "connecting" THEN {"ECONNREFUSED", "ETIMEDOUT"}
                                   ELSE {"ECONNRESET", "ETIMEDOUT"}

\* remote 'error': the socket is destroyed when it emits the error
RemoteError(code) ==
    /\ Running
    /\ remote.state \in {"connecting", "connected"}
    /\ code \in RemoteErrorCodes
    /\ LET s == [Cur EXCEPT !.remote.state = "destroyed",
                            !.hist.refused = @ \/ code = "ECONNREFUSED",
                            !.hist.remoteOther = @ \/ code # "ECONNREFUSED"]
       IN  Commit(remoteOnError(s, code), Event("remoteError", 0, code))
    /\ UNCHANGED openResult

\* remote 'data': only a socket that is not paused reads
RemoteData(data) ==
    /\ Running
    /\ remote.state = "connected"
    /\ ~remote.paused
    /\ emitted.request < MaxRequests
    /\ Commit(remoteOnData(Cur, data), Event("remoteData", 0, NONE))
    /\ UNCHANGED openResult

\* the broker closes the connection: remote 'end' (which the pipe passes on
\* to the local it feeds), then the socket is destroyed
RemotePeerClose ==
    /\ Running
    /\ remote.state = "connected"
    /\ ~remote.paused
    /\ LET s == [Cur EXCEPT !.remote.state = "destroyed"]
           fed == {i \in LiveLocals(s) : s.locals[i].piped}
       IN  Commit(PipeEndToLocals(s, fed), Event("remoteEnd", 0, NONE))
    /\ UNCHANGED openResult

\* remote 'close', emitted once after the socket was destroyed
RemoteCloseEvent ==
    /\ Running
    /\ remote.state = "destroyed"
    /\ LET s == [Cur EXCEPT !.remote.state = "closed"]
       IN  Commit(RunCloseListeners(s, s.closeListeners),
                  Event("remoteClose", 0, NONE))
    /\ UNCHANGED openResult

\* local 'connect'
LocalConnect(id) ==
    /\ Running
    /\ id \in 1..Len(locals)
    /\ locals[id].state = "connecting"
    /\ LET s == [Cur EXCEPT !.locals[id].state = "connected",
                            !.locals[id].onConnect = FALSE]
       IN  Commit(localOnConnect(s, id), Event("localConnect", id, NONE))
    /\ UNCHANGED openResult

LocalErrorCodes(id) ==
    IF locals[id].state = "connecting" THEN {"ECONNREFUSED", "ECONNRESET", "EPROTO"}
                                       ELSE {"ECONNRESET", "EPIPE"}

\* local 'error': the socket is destroyed, which clears its idle timer
LocalError(id, code) ==
    /\ Running
    /\ id \in 1..Len(locals)
    /\ locals[id].state # "closed"
    /\ locals[id].onError
    /\ code \in LocalErrorCodes(id)
    /\ code \in {"ECONNREFUSED", "ECONNRESET"} => Len(locals) < MaxLocals
    /\ LET transient == code \in {"ECONNREFUSED", "ECONNRESET"}
           s == [Cur EXCEPT !.locals[id] = [Destroyed(@) EXCEPT !.hadError = TRUE],
                            !.hist.fatalLocal =
                                @ \/ (~transient /\ remote.state = "connected"
                                                 /\ ~remote.ended),
                            !.hist.transientFailures =
                                IF transient THEN @ + 1 ELSE @]
       IN  Commit(localOnError(s, id, code), Event("localError", id, code))
    /\ UNCHANGED openResult

\* local 'data' of a connected local, through the injector (lines 190-192)
LocalData(id, data) ==
    /\ Running
    /\ id \in 1..Len(locals)
    /\ locals[id].state = "connected"
    /\ locals[id].piped
    /\ LET t == Transform(data)
           e == IF t.emit THEN EmitOnce(locals[id].injector)
                          ELSE [run |-> 0, left |-> locals[id].injector]
           s == [Cur EXCEPT !.locals[id].injector = e.left,
                            !.hist.saw408 = @ \/ Includes(data, MARKER)]
       IN  Commit(IF e.run > 0 THEN injectorOnTimeout(s, id) ELSE s,
                  Event("localData", id,
                        IF Includes(data, MARKER) THEN "408" ELSE NONE))
    /\ UNCHANGED openResult

\* local 'timeout': the idle timer of local.setTimeout (line 152); the
\* instant is left open, the listener is a once-listener (line 153)
LocalTimeout(id) ==
    /\ Running
    /\ id \in 1..Len(locals)
    /\ locals[id].state # "closed"
    /\ locals[id].idleTimer
    /\ locals[id].onTimeout
    /\ LET s == [Cur EXCEPT !.locals[id].onTimeout = FALSE]
       IN  Commit(localOnTimeout(s, id), Event("localTimeout", id, NONE))
    /\ UNCHANGED openResult

\* the local service closes a connected local without error: local 'end',
\* which the pipes pass on as remote.end() (lines 190-192), then 'close'
\* (lines 195-197)
LocalClose(id) ==
    /\ Running
    /\ id \in 1..Len(locals)
    /\ locals[id].state = "connected"
    /\ LET s == [Cur EXCEPT !.locals[id] = Destroyed(@)]
       IN  Commit(localOnClose(IF s.locals[id].piped THEN RemoteEnd(s) ELSE s, id),
                  Event("localClose", id, NONE))
    /\ UNCHANGED openResult

\* a retry timer that has run for its delay calls connLocal (line 142)
RetryTimerFire(i) ==
    /\ Running
    /\ i \in 1..Len(timers)
    /\ timers[i].elapsed >= timers[i].delay
    /\ RemoteDestroyed(Cur) \/ Len(locals) < MaxLocals
    /\ LET s == [Cur EXCEPT !.timers =
                     SubSeq(timers, 1, i - 1) \o SubSeq(timers, i + 1, Len(timers))]
       IN  Commit(connLocal(s, "timer"),
                  [name |-> "retryFire", id |-> 0, code |-> NONE,
                   waited |-> timers[i].elapsed])
    /\ UNCHANGED openResult

\* the certificate files become unreadable, or readable again, between two
\* reads (lines 109-111 read them anew in every connLocal)
CertFilesChange ==
    /\ Running
    /\ opts.local_https /\ ~opts.allow_invalid_cert
    /\ certReadable' = ~certReadable
    /\ lastEvent' = Event("certFiles", 0, NONE)
    /\ UNCHANGED <<opts, remote, connecting, closeListeners, locals, timers,
                   emitted, thrown, openResult, hist, sentinel>>

Min(a, b) == IF a < b THEN a ELSE b

\* time passes for the pending timers
Tick ==
    /\ Running
    /\ \E i \in 1..Len(timers) : timers[i].elapsed < timers[i].delay
    /\ Commit([Cur EXCEPT !.timers =
                   [i \in 1..Len(timers) |->
                       [timers[i] EXCEPT !.elapsed = Min(@ + TickMs, timers[i].delay)]]],
              Event("tick", 0, NONE))
    /\ UNCHANGED openResult

Next ==
    \/ Open
    \/ RemoteConnect
    \/ \E code \in {"ECONNREFUSED", "ECONNRESET", "ETIMEDOUT"} : RemoteError(code)
    \/ \E data \in RemoteChunks : RemoteData(data)
    \/ RemotePeerClose
    \/ RemoteCloseEvent
    \/ \E id \in 1..MaxLocals : LocalConnect(id)
    \/ \E id \in 1..MaxLocals :
           \E code \in {"ECONNREFUSED", "ECONNRESET", "EPROTO", "EPIPE"} :
               LocalError(id, code)
    \/ \E id \in 1..MaxLocals : \E data \in LocalChunks : LocalData(id, data)
    \/ \E id \in 1..MaxLocals : LocalTimeout(id)
    \/ \E id \in 1..MaxLocals : LocalClose(id)
    \/ \E i \in 1..MaxLocals : RetryTimerFire(i)
    \/ Tick
    \/ CertFilesChange

Spec == Init /\ [][Next]_vars

\* timers fire and time passes: the event loop runs a due timer
FairSpec == Spec /\ WF_vars(Tick) /\ WF_vars(\E i \in 1..MaxLocals : RetryTimerFire(i))

(***************************************************************************)
(* LocalConnectionListener on its own: any chunks, in any order.           *)
(***************************************************************************)
SentinelNext ==
    \/ SentinelOnTimeout
    \/ \E data \in SentinelChunks : SentinelWrite(data)

SentinelStart == Init /\ opts = Plain

SentinelSpec == SentinelStart /\ [][SentinelNext]_vars

(***************************************************************************)
(* Properties.                                                             *)
(***************************************************************************)
\* the remote socket is connected and remote.end() was not called
RemoteAlive == remote.state = "connected" /\ ~remote.ended

\* nothing is left that could run: the remote 'close' was emitted, no timer
\* is pending and no local socket is open
Quiescent == remote.state = "closed" /\ timers = <<>> /\ LiveLocals(Cur) = {}

TransientCodes == {"ECONNREFUSED", "ECONNRESET"}

Contains(seq, x) == \E i \in 1..Len(seq) : seq[i] = x

\* C1: once a connected local has emitted a chunk containing
\* "408 Request Timeout", `dead` has been emitted exactly once, and it is
\* never emitted a second time afterwards.
C1_DeadExactlyOnceAfter408 == hist.saw408 => emitted.dead = 1

\* C2: after the remote failed with ECONNREFUSED on its connect, `error` was
\* emitted once with a message containing the host and the port the socket
\* was opened to, and never afterwards is connLocal invoked, a local socket
\* created, a retry timer scheduled or the remote connected again.
C2_RefusedRemote ==
    hist.refused =>
        /\ emitted.error = 1
        /\ Contains(emitted.errorMsg,
                    IF opts.remote_ip # NONE THEN opts.remote_ip ELSE opts.remote_host)
        /\ Contains(emitted.errorMsg, opts.remote_port)
        /\ hist.connLocalCalls = 0
        /\ locals = <<>>
        /\ timers = <<>>
        /\ hist.netConnects = 1
        /\ emitted.open = 0

C2_Witness == hist.refused /\ remote.state = "closed"

\* the step that handles a transient local error while the remote is alive
C3_FailureStep ==
    (lastEvent'.name = "localError" /\ lastEvent'.code \in TransientCodes /\ RemoteAlive)
        => /\ emitted'.dead = emitted.dead
           /\ emitted'.error = emitted.error
           /\ RemoteAlive'
           /\ Len(timers') = Len(timers) + 1

\* a step taken while a retry is pending and the remote is alive, other than
\* the remote failing or being closed by the broker
C3_BackoffStep ==
    (timers # <<>> /\ RemoteAlive /\ lastEvent'.name \notin {"remoteError", "remoteEnd"})
        => /\ emitted'.dead = emitted.dead
           /\ emitted'.error = emitted.error
           /\ RemoteAlive'

\* the retry timer firing while the remote is alive: connLocal runs, and
\* (unless the certificate files cannot be read at that moment) opens the
\* next local socket
C3_RetryStep ==
    (lastEvent'.name = "retryFire" /\ RemoteAlive)
        => /\ hist'.connLocalCalls = hist.connLocalCalls + 1
           /\ emitted'.dead = emitted.dead
           /\ RemoteAlive'
           /\ ~CertReadThrows(opts, certReadable)
                  => /\ Len(locals') = Len(locals) + 1
                     /\ locals'[Len(locals')].state = "connecting"

\* C3: while the remote stays alive, a local failure with ECONNREFUSED or
\* ECONNRESET emits neither `dead` nor `error` and does not end the remote,
\* nothing is emitted until the next local attempt, and that attempt is
\* eventually made (or the remote stops being alive), failure after failure.
C3_TransientLocalErrorRecovered ==
    /\ [][C3_FailureStep /\ C3_BackoffStep /\ C3_RetryStep]_vars
    /\ ((timers # <<>> /\ RemoteAlive) ~> (timers = <<>> \/ ~RemoteAlive))

C3_Witness ==
    /\ lastEvent.name = "retryFire"
    /\ hist.transientFailures = 2
    /\ Len(locals) = 3
    /\ locals[3].state = "connecting"
    /\ RemoteAlive
    /\ emitted.dead = 0
    /\ emitted.error = 0

\* C4: as many retries have been scheduled as there were ECONNREFUSED /
\* ECONNRESET local failures, a retry runs no earlier than 1000 ms after it
\* was scheduled, and never are two retry timers pending or two local
\* sockets open at once.
C4_OneRetryPerFailure ==
    /\ hist.retriesScheduled = hist.transientFailures
    /\ Len(timers) <= 1
    /\ Cardinality(LiveLocals(Cur)) <= 1
    /\ lastEvent.name = "retryFire" => lastEvent.waited >= 1000

C4_Witness ==
    /\ lastEvent.name = "retryFire"
    /\ hist.transientFailures = 2
    /\ RemoteAlive
    /\ Cardinality(LiveLocals(Cur)) = 1

\* C5: right after a local error whose code is neither ECONNREFUSED nor
\* ECONNRESET, remote.end() has been called, no retry timer is pending and
\* none was scheduled for it, and no local socket is open.
C5_FatalLocalError ==
    (lastEvent.name = "localError" /\ lastEvent.code \notin TransientCodes)
        => /\ remote.ended
           /\ timers = <<>>
           /\ hist.retriesScheduled = hist.transientFailures
           /\ LiveLocals(Cur) = {}

C5_Witness ==
    /\ lastEvent.name = "localError"
    /\ lastEvent.code = "EPIPE"
    /\ hist.transientFailures = 1
    /\ remote.state = "connected"

\* C6: once a fatal local error has ended a remote that was alive, and the
\* remote has then closed (without any error of its own) with nothing left
\* to run, a `dead` has been emitted after that error.
C6_FatalLocalSurfacesDead ==
    (hist.fatalLocal /\ ~hist.remoteOther /\ Quiescent) => hist.deadAfterFatal

\* C7: once a remote error other than ECONNREFUSED has occurred and the
\* remote has closed, with nothing left to run, no `error` was emitted and a
\* `dead` has been emitted after that error.
C7_RemoteOtherErrorSurfacesDead ==
    (hist.remoteOther /\ Quiescent) => (emitted.error = 0 /\ hist.deadAfterRemoteOther)

\* C8: when the 'close' of a remote that had connected has been handled,
\* every local socket still open has been ended, and, once the remote has
\* closed (without any error of its own) and nothing is left to run, `dead`
\* has been emitted.
C8_RemoteCloseEmitsDead ==
    /\ (lastEvent.name = "remoteClose" /\ emitted.open = 1)
           => \A i \in LiveLocals(Cur) : locals[i].ended
    /\ (Quiescent /\ emitted.open = 1 /\ ~hist.remoteOther) => emitted.dead >= 1

\* the configuration of C9: a TLS local, no trust override, unreadable files
C9_Config == opts.local_https /\ ~opts.allow_invalid_cert /\ ~certReadable

\* C9 as stated: with that configuration the call of open() itself throws.
C9_OpenFailsSynchronously == (C9_Config /\ openResult # "none") => openResult = "threw"

\* C9, amended: open() never throws; with that configuration the read fails
\* inside connLocal, in the callback that called it (the remote 'connect'
\* callback, after `open` was emitted, or a retry timer if the files became
\* unreadable later), as an exception that escapes that callback; that
\* connLocal leaves the remote paused, creates no local socket, and no
\* retry is pending afterwards.
C9_CertFailureInCallback ==
    /\ openResult # "threw"
    /\ (C9_Config /\ lastEvent.name = "remoteConnect") => thrown = "connect"
    /\ (C9_Config /\ lastEvent.name = "retryFire" /\ ~RemoteDestroyed(Cur))
           => thrown = "timer"
    /\ thrown # "none" =>
           /\ C9_Config
           /\ lastEvent.name = (IF thrown = "connect" THEN "remoteConnect" ELSE "retryFire")
           /\ emitted.open = 1
           /\ remote.paused
           /\ LiveLocals(Cur) = {}
           /\ closeListeners = {}
           /\ timers = <<>>
    /\ thrown = "connect" => locals = <<>> /\ hist.connLocalCalls = 1

C9_Witness == C9_Config /\ thrown = "connect" /\ openResult = "returned"

C9_WitnessRetry == C9_Config /\ thrown = "timer" /\ Len(locals) = 2

\* the chunks of SentinelChunks that contain "408 Request Timeout"
TimeoutChunks == {Resp408, MARKER}

\* C10: for a LocalConnectionListener whose callback was registered before
\* any chunk, the callback has run once if a chunk written so far contains
\* "408 Request Timeout" (however many do) and not at all otherwise, and the
\* chunks passed on are the chunks written.
C10_SentinelOnceAndTransparent ==
    /\ sentinel.out = sentinel.in
    /\ (sentinel.registered /\ sentinel.registeredAt = 0) =>
           sentinel.calls =
               IF \E i \in 1..Len(sentinel.in) : sentinel.in[i] \in TimeoutChunks
               THEN 1 ELSE 0

C10_Witness ==
    /\ sentinel.registered
    /\ sentinel.registeredAt = 0
    /\ Len(sentinel.in) = 3
    /\ sentinel.in[1] = RespSplitA
    /\ sentinel.in[2] = Resp408
    /\ sentinel.in[3] = MARKER
    /\ sentinel.calls = 1

\* C11: right after the idle timer of an established (connected) local has
\* fired, the pairing is torn down, whatever remote data came before: its
\* remoteClose is off the remote, remote.end() was called, the local was
\* ended and `dead` has been emitted.
C11_IdleTimeoutTearsDown ==
    (lastEvent.name = "localTimeout" /\ locals[lastEvent.id].state = "connected")
        => /\ lastEvent.id \notin closeListeners
           /\ remote.ended
           /\ locals[lastEvent.id].ended
           /\ emitted.dead >= 1

\* a step that handles an idle timeout or a chunk holding the marker
C12_TimeoutEvent ==
    \/ lastEvent'.name = "localTimeout"
    \/ lastEvent'.name = "localData" /\ lastEvent'.code = "408"

\* C12: an idle timeout or a 408 chunk handled while the flag `connecting`
\* is true changes nothing: the remote (not ended), the remoteClose
\* listeners, whether the local is ended, the timers and the events emitted
\* are as before.
C12_SuppressedTimeoutChangesNothing ==
    [][(connecting /\ C12_TimeoutEvent)
          => /\ remote' = remote
             /\ closeListeners' = closeListeners
             /\ locals'[lastEvent'.id].ended = locals[lastEvent'.id].ended
             /\ locals'[lastEvent'.id].state = locals[lastEvent'.id].state
             /\ Len(locals') = Len(locals)
             /\ timers' = timers
             /\ emitted' = emitted
             /\ connecting']_vars

C12_Witness ==
    /\ connecting
    /\ lastEvent.name = "localTimeout"
    /\ lastEvent.id \in closeListeners
    /\ locals[lastEvent.id].state = "connected"
    /\ ~locals[lastEvent.id].ended
    /\ ~remote.ended
    /\ emitted.dead = 0

\* remote.destroyed, read off the socket
C13_Destroyed == remote.state \in {"destroyed", "closed"}

\* C13: no local socket is created in a step taken with the remote
\* destroyed, and a connLocal that finds the remote destroyed emits `dead`
\* once and leaves the remote (not paused), the close listeners, the local
\* sockets and the timers (no new retry) alone.
C13_NoLocalAfterRemoteDestroyed ==
    [][C13_Destroyed =>
          /\ Len(locals') = Len(locals)
          /\ lastEvent'.name \in {"retryFire", "remoteConnect"} =>
                 /\ emitted'.dead = emitted.dead + 1
                 /\ hist'.connLocalCalls = hist.connLocalCalls + 1
                 /\ remote' = remote
                 /\ closeListeners' = closeListeners
                 /\ locals' = locals
                 /\ Len(timers') = Len(timers) - 1
                 /\ thrown' = "none"]_vars

C13_Witness ==
    /\ lastEvent.name = "retryFire"
    /\ remote.state = "destroyed"
    /\ hist.transientFailures = 2
    /\ Len(locals) = 2
    /\ LiveLocals(Cur) = {}
    /\ timers = <<>>
    /\ emitted.dead = 1

\* a local socket created by connLocal that has neither connected nor failed
C14_Negotiating == \E i \in 1..Len(locals) : locals[i].state = "connecting"

\* C14: while a local is being negotiated the remote is paused; no step
\* taken from such a state handles remote data or emits `request`; and the
\* remote goes from paused to not paused only in the 'connect' of the local
\* being negotiated.
C14_RemotePausedWhileNegotiating ==
    /\ [](C14_Negotiating => remote.paused)
    /\ [][C14_Negotiating =>
             /\ lastEvent'.name # "remoteData"
             /\ emitted'.request = emitted.request
             /\ connecting' = connecting]_vars
    /\ [][(remote.paused /\ ~remote'.paused) =>
             /\ lastEvent'.name = "localConnect"
             /\ locals[lastEvent'.id].state = "connecting"
             /\ lastEvent'.id = Len(locals)]_vars

C14_Witness ==
    /\ Len(locals) = 2
    /\ locals[2].state = "connecting"
    /\ locals[1].piped
    /\ remote.paused
    /\ remote.state = "connected"
    /\ emitted.request = 1

\* C15: a retry timer never fires once the remote is destroyed, and an idle
\* timer never fires once its local is destroyed.
C15_NoTimerAfterDestroy ==
    /\ lastEvent.name = "retryFire" => remote.state \notin {"destroyed", "closed"}
    /\ lastEvent.name = "localTimeout" => locals[lastEvent.id].state # "closed"

\* an idle timeout that tore the pairing down: `connecting` only ever goes
\* from false to true, so it was false when the callback ran
C16_Teardown == lastEvent.name = "localTimeout" /\ ~connecting

\* C16 as stated: an idle-timeout teardown happens only with
\* session_connection and only for a local that has connected.
C16_TeardownOnlyWhenPaired ==
    C16_Teardown =>
        opts.session_connection /\ locals[lastEvent.id].state = "connected"

\* C16, amended: an idle timeout is handled only with session_connection,
\* and without it no local ever has an idle timer or a timeout listener; the
\* timer is armed when connLocal creates the socket, so the local torn down
\* is connecting or connected, and the teardown takes its remoteClose off,
\* ends the remote and the local and emits `dead`.
C16_TeardownOnlyWithSession ==
    /\ lastEvent.name = "localTimeout" => opts.session_connection
    /\ ~opts.session_connection =>
           \A i \in 1..Len(locals) : ~locals[i].idleTimer /\ ~locals[i].onTimeout
    /\ \A i \in 1..Len(locals) :
           locals[i].state = "connecting" => locals[i].idleTimer = opts.session_connection
    /\ C16_Teardown =>
           /\ locals[lastEvent.id].state \in {"connecting", "connected"}
           /\ lastEvent.id \notin closeListeners
           /\ remote.ended
           /\ locals[lastEvent.id].ended
           /\ emitted.dead >= 1

C16_Witness ==
    /\ C16_Teardown
    /\ locals[lastEvent.id].state = "connecting"
    /\ remote.ended
    /\ emitted.dead = 1

\* C17 as stated: a clean close of a local changes nothing else: no local is
\* added, no timer scheduled, the remote is as before (not ended by it), the
\* remoteClose listeners stay and nothing is emitted.
C17_CleanCloseChangesNothing ==
    [][lastEvent'.name = "localClose" =>
          /\ Len(locals') = Len(locals)
          /\ timers' = timers
          /\ remote' = remote
          /\ closeListeners' = closeListeners
          /\ emitted' = emitted]_vars

\* C17, amended: a clean close of a local adds no local, schedules no
\* timer, leaves the remoteClose listeners registered and emits nothing, but
\* the pipes local -> injector -> remote call remote.end(): the remote is
\* ended (and otherwise unchanged).
C17_CleanCloseEndsRemoteOnly ==
    [][lastEvent'.name = "localClose" =>
          /\ Len(locals') = Len(locals)
          /\ \A i \in 1..Len(locals) : i # lastEvent'.id => locals'[i] = locals[i]
          /\ timers' = timers
          /\ closeListeners' = closeListeners
          /\ emitted' = emitted
          /\ remote' = [remote EXCEPT !.ended = TRUE]]_vars

C17_Witness ==
    /\ lastEvent.name = "localClose"
    /\ lastEvent.id \in closeListeners
    /\ remote.ended
    /\ remote.state = "connected"
    /\ emitted.dead = 0
    /\ timers = <<>>

\* C18: at most one local socket is connecting or connected at a time, and
\* a local is added only by the remote 'connect' (the first one) or by a
\* retry timer after the newest local failed with an error.
C18_LocalsSequential ==
    /\ [](Cardinality({i \in 1..Len(locals) :
                          locals[i].state \in {"connecting", "connected"}}) <= 1)
    /\ [][Len(locals') # Len(locals) =>
             /\ Len(locals') = Len(locals) + 1
             /\ \/ lastEvent'.name = "remoteConnect" /\ locals = <<>>
                \/ /\ lastEvent'.name = "retryFire"
                   /\ locals # <<>>
                   /\ locals[Len(locals)].state = "closed"
                   /\ locals[Len(locals)].hadError]_vars

C18_Witness ==
    /\ Len(locals) = 3
    /\ locals[1].piped /\ locals[1].hadError
    /\ locals[2].hadError
    /\ locals[3].state = "connected"

\* C19 as stated: `dead` is emitted at most once over the life of a tunnel
\* connection.
C19_DeadAtMostOnce == emitted.dead <= 1

\* C20: at most one remoteClose forwarder is registered on the remote at a
\* time, and it is the one of the newest local.
C20_OneCloseForwarder ==
    /\ Cardinality(closeListeners) <= 1
    /\ closeListeners \subseteq {Len(locals)}

C20_Witness ==
    /\ Len(locals) = 2
    /\ locals[1].hadError
    /\ closeListeners = {2}
    /\ remote.state = "connected"

====
